---------------------------- MODULE Spec2Model ----------------------------
(***************************************************************************)
(* Model of go-controller/pkg/ovn/address_set/address_set.go: the address  *)
(* set factory (ovnAddressSetFactory), the dual-stack handle               *)
(* (ovnAddressSets) and the per-family set object (ovnAddressSet), run     *)
(* against a backing store (goovn.Client) whose commands may fail.         *)
(*                                                                         *)
(* Names are sequences of one-character strings so that suffix stripping   *)
(* and splitting are computed, not assumed.  A net.IP is a record of its   *)
(* byte length, its family and its String() form: the 4-byte and the       *)
(* 16-byte form of one IPv4 address are different values with the same     *)
(* string.  The member list of a command is kept as a bag (multiplicity    *)
(* kept, order dropped) because allIPs() ranges over a Go map, whose       *)
(* iteration order is unspecified.                                         *)
(***************************************************************************)
EXTENDS Naturals, Sequences, FiniteSets

VARIABLES
  config,   \* config.IPv4Mode and config.IPv6Mode
  store,    \* the records of the backing store, by hashed identifier
  hs,       \* the handles (ovnAddressSets) the callers hold
  lw,       \* history: the handle whose command last changed each record
  dead,     \* history: the handle has been destroyed with success
  last,     \* the call that has just returned, until the caller goes on
  listing,  \* what ASList answered to the last ForEachAddressSet
  visits,   \* the calls of the iterator function made by it
  mu,       \* the RWMutex of the handle: the goroutine that holds it
  thr,      \* the goroutines that run calls step by step: position and locals
  base      \* history: handle and store when the goroutines were started

vars == <<config, store, hs, lw, dead, last, listing, visits, mu, thr, base>>

---------------------------------------------------------------------------
(* Bounds *)

\* longest list of IPs handed to one call
MaxIPs == 2

\* longest listing returned by ASList
MaxList == 3

\* longest member list of a record that is in the store from the start
MaxStored == 1

\* longest list of IPs handed to one call when two handles are in use
MaxIPsTwo == 1

---------------------------------------------------------------------------
(* Names *)

ipv4AddressSetSuffix == <<"_", "v", "4">>

ipv6AddressSetSuffix == <<"_", "v", "6">>

\* the logical name the handles of the model are made for
LogicalName == <<"n", "s", "1">>

MakeAddressSetName(name) ==
  [v4 |-> name \o ipv4AddressSetSuffix, v6 |-> name \o ipv6AddressSetSuffix]

\* util.HashForOVN: deterministic and injective on the names in use
HashForOVN(s) == <<"#">> \o s

hashedAddressSet(s) == HashForOVN(s)

MakeAddressSetHashNames(name) ==
  [v4 |-> hashedAddressSet(MakeAddressSetName(name).v4),
   v6 |-> hashedAddressSet(MakeAddressSetName(name).v6)]

HasSuffix(s, suf) ==
  /\ Len(s) >= Len(suf)
  /\ SubSeq(s, Len(s) - Len(suf) + 1, Len(s)) = suf

TrimSuffix(s, suf) ==
  IF HasSuffix(s, suf) THEN SubSeq(s, 1, Len(s) - Len(suf)) ELSE s

truncateSuffixFromAddressSet(asName) ==
  IF HasSuffix(asName, ipv4AddressSetSuffix)
  THEN TrimSuffix(asName, ipv4AddressSetSuffix)
  ELSE IF HasSuffix(asName, ipv6AddressSetSuffix)
       THEN TrimSuffix(asName, ipv6AddressSetSuffix)
       ELSE asName

---------------------------------------------------------------------------
(* IPs *)

IPA4  == [len |-> 4,  fam |-> "v4", str |-> "10.0.0.1"]
IPA16 == [len |-> 16, fam |-> "v4", str |-> "10.0.0.1"]
IPB4  == [len |-> 4,  fam |-> "v4", str |-> "10.0.0.2"]
IPX6  == [len |-> 16, fam |-> "v6", str |-> "fd00::1"]

IPs == {IPA4, IPA16, IPB4, IPX6}

Strs == {ip.str : ip \in IPs}

\* net.IP.String()
String(ip) == ip.str

\* utilnet.IsIPv6: the address has no 4-byte form
IsIPv6(ip) == ip.fam = "v6"

\* the lists of at most n IPs
IPListsTo(n) == UNION {[1..k -> IPs] : k \in 0..n}

IPLists == IPListsTo(MaxIPs)

splitIPsByFamily(ips) ==
  [v4 |-> SelectSeq(ips, LAMBDA ip : ~IsIPv6(ip)),
   v6 |-> SelectSeq(ips, LAMBDA ip : IsIPv6(ip))]

ipsToStringArray(ips) == [i \in DOMAIN ips |-> String(ips[i])]

\* a list of strings as a bag: how many times each string occurs
BagOf(strs) ==
  [s \in Strs |-> Cardinality({i \in DOMAIN strs : strs[i] = s})]

BagSet(bag) == {s \in Strs : bag[s] > 0}

EmptyBag == [s \in Strs |-> 0]

\* map[string]net.IP keyed by ip.String(): the set of its values; a later
\* entry of the list replaces an earlier one with the same key
MapOf(ips) ==
  {ips[i] : i \in {j \in DOMAIN ips :
                     \A k \in DOMAIN ips : k > j => String(ips[k]) # String(ips[j])}}

Keys(m) == {String(ip) : ip \in m}

HasKey(m, k) == \E ip \in m : String(ip) = k

RECURSIVE SetToSeq(_)
SetToSeq(S) ==
  IF S = {} THEN <<>>
  ELSE LET x == CHOOSE y \in S : TRUE IN <<x>> \o SetToSeq(S \ {x})

---------------------------------------------------------------------------
(* Errors *)

Nil == "nil"

Error == "error"

\* errors.Wrapf of github.com/pkg/errors: wrapping a nil error gives nil
Wrapf(err, cause) == IF err = Nil THEN Nil ELSE Error

---------------------------------------------------------------------------
(* The backing store: goovn.Client *)

Ids == {hashedAddressSet(LogicalName),
        MakeAddressSetHashNames(LogicalName).v4,
        MakeAddressSetHashNames(LogicalName).v6}

NoRecord == [present |-> FALSE, members |-> EmptyBag, name |-> <<>>]

Record(members, name) == [present |-> TRUE, members |-> members, name |-> name]

\* what ASGet can answer for an identifier
GetOutcomes(st, id) ==
  IF st[id].present THEN {"found", "err"} ELSE {"notfound", "schema", "err"}

\* what building and executing a command can answer: "err" is any failure of
\* ASAdd/ASUpdate/ASDel or of Execute other than NotFound; the code handles
\* the two alike.  A create of a record that exists and a replace or delete
\* of one that does not are refused
CmdOutcomes(st, cmd, id) ==
  IF cmd = "create"
  THEN IF st[id].present THEN {"err"} ELSE {"ok", "err"}
  ELSE IF st[id].present THEN {"ok", "err"} ELSE {"notfound", "err"}

\* a command sent to the store: its kind, the identifier, the members and the
\* "name" metadata it carries, and the answer it got
Call(cmd, id, members, name, res) ==
  [cmd |-> cmd, id |-> id, members |-> members, name |-> name, res |-> res]

\* Execute: the effect of a command on the store
Execute(st, c) ==
  IF c.res # "ok" THEN st
  ELSE IF c.cmd = "delete" THEN [st EXCEPT ![c.id] = NoRecord]
  ELSE IF c.cmd \in {"create", "replace"}
       THEN [st EXCEPT ![c.id] = Record(c.members, c.name)]
       ELSE st

---------------------------------------------------------------------------
(* The per-family set object: ovnAddressSet *)

NilSet == [nil |-> TRUE, name |-> <<>>, hashName |-> <<>>, ips |-> {}]

\* the result of a step on a per-family set: the object, the store, the
\* error returned and the commands sent
Result(as, st, err, calls) == [as |-> as, st |-> st, err |-> err, calls |-> calls]

allIPs(as) == SetToSeq(as.ips)

\* setIPs with the cache written before the command is executed
setIPsOptimistic(as, ips, st, o) ==
  LET newIPs == ipsToStringArray(ips)
      c == Call("replace", as.hashName, BagOf(newIPs), as.name, o)
  IN IF o # "ok"
     THEN Result([as EXCEPT !.ips = MapOf(ips)], st, Error, <<c>>)
     ELSE Result([as EXCEPT !.ips = MapOf(ips)], Execute(st, c), Nil, <<c>>)

setIPs(as, ips, st, o) ==
  LET newIPs == ipsToStringArray(ips)
      c == Call("replace", as.hashName, BagOf(newIPs), as.name, o)
  IN IF o # "ok"
     THEN Result(as, st, Error, <<c>>)
     ELSE Result([as EXCEPT !.ips = MapOf(ips)], Execute(st, c), Nil, <<c>>)

\* addIPs without the return on an empty uniqIPs
addIPsAlways(as, ips, st, o) ==
  LET uniqIPs == SelectSeq(ips, LAMBDA ip : ~HasKey(as.ips, String(ip)))
  IN setIPs(as, uniqIPs \o SetToSeq(as.ips), st, o)

addIPs(as, ips, st, o) ==
  LET uniqIPs == SelectSeq(ips, LAMBDA ip : ~HasKey(as.ips, String(ip)))
      newIPs == uniqIPs \o allIPs(as)
      r == setIPs(as, newIPs, st, o)
  IN IF Len(uniqIPs) = 0 THEN Result(as, st, Nil, <<>>) ELSE r

\* deleteIPs keeps in newIPs the IPs of the request that are not (or no
\* longer) in the copy of the cache, and sets the address set to newIPs
RECURSIVE deleteLoop(_, _, _)
deleteLoop(ips, newMap, newIPs) ==
  IF ips = <<>> THEN newIPs
  ELSE IF HasKey(newMap, String(Head(ips)))
       THEN deleteLoop(Tail(ips),
                       {ip \in newMap : String(ip) # String(Head(ips))}, newIPs)
       ELSE deleteLoop(Tail(ips), newMap, Append(newIPs, Head(ips)))

deleteIPs(as, ips, st, o) == setIPs(as, deleteLoop(ips, as.ips, <<>>), st, o)

destroy(as, st, o) ==
  LET c == Call("delete", as.hashName, EmptyBag, <<>>, o)
  IN IF o # "ok"
     THEN Result(as, st, Error, <<c>>)
     ELSE Result([as EXCEPT !.ips = {}], Execute(st, c), Nil, <<c>>)

\* newOvnAddressSet that creates the record whatever ASGet answered
newOvnAddressSetCreate(name, ips, st, og, o) ==
  LET as == [nil |-> FALSE, name |-> name, hashName |-> hashedAddressSet(name),
             ips |-> MapOf(ips)]
      g == Call("get", as.hashName, EmptyBag, <<>>, og)
      c == Call("create", as.hashName, BagOf(ipsToStringArray(ips)), name, o)
  IN IF og = "err" THEN Result(NilSet, st, Error, <<g>>)
     ELSE IF o # "ok"
          THEN Result(NilSet, st, Error, <<g, c>>)
          ELSE Result(as, Execute(st, c), Nil, <<g, c>>)

\* newOvnAddressSet: og is the answer of ASGet, o that of the create or
\* replace; on an error no object is returned (NilSet)
newOvnAddressSet(name, ips, st, og, o) ==
  LET as == [nil |-> FALSE, name |-> name, hashName |-> hashedAddressSet(name),
             ips |-> MapOf(ips)]
      g == Call("get", as.hashName, EmptyBag, <<>>, og)
      c == Call("create", as.hashName, BagOf(ipsToStringArray(ips)), name, o)
      r == setIPs(as, ips, st, o)
  IN IF og = "err" THEN Result(NilSet, st, Error, <<g>>)
     ELSE IF og \in {"notfound", "schema"}
          THEN IF o # "ok"
               THEN Result(NilSet, st, Error, <<g, c>>)
               ELSE Result(as, Execute(st, c), Nil, <<g, c>>)
          ELSE IF r.err # Nil
               THEN Result(NilSet, st, Error, <<g>> \o r.calls)
               ELSE Result(r.as, r.st, Nil, <<g>> \o r.calls)

---------------------------------------------------------------------------
(* The dual-stack handle: ovnAddressSets *)

Handles == {"h1", "h2"}

NoHandle == [made |-> FALSE, name |-> <<>>, ipv4 |-> NilSet, ipv6 |-> NilSet]

Families == {"v4", "v6"}

\* the per-family set of a handle
SetOf(h, f) == IF f = "v4" THEN h.ipv4 ELSE h.ipv6

\* the family is enabled in the configuration
Enabled(f) == IF f = "v4" THEN config.v4 ELSE config.v6

\* the result of a call on a handle
HResult(h, st, err, calls) == [h |-> h, st |-> st, err |-> err, calls |-> calls]

Skip(as, st) == Result(as, st, Nil, <<>>)

\* newOvnAddressSets that returns what it has built when the v6 set fails
newOvnAddressSetsPartial(name, ips, cfg, st, og4, o4, og6, o6) ==
  LET split == splitIPsByFamily(ips)
      names == MakeAddressSetName(name)
      r4 == IF cfg.v4 THEN newOvnAddressSet(names.v4, split.v4, st, og4, o4)
            ELSE Skip(NilSet, st)
      r6 == IF cfg.v6 THEN newOvnAddressSet(names.v6, split.v6, r4.st, og6, o6)
            ELSE Skip(NilSet, r4.st)
  IN IF r4.err # Nil THEN HResult(NoHandle, r4.st, r4.err, r4.calls)
     ELSE HResult([made |-> TRUE, name |-> name, ipv4 |-> r4.as, ipv6 |-> r6.as],
                  r6.st, r6.err, r4.calls \o r6.calls)

newOvnAddressSets(name, ips, cfg, st, og4, o4, og6, o6) ==
  LET split == splitIPsByFamily(ips)
      names == MakeAddressSetName(name)
      r4 == IF cfg.v4 THEN newOvnAddressSet(names.v4, split.v4, st, og4, o4)
            ELSE Skip(NilSet, st)
      r6 == IF cfg.v6 THEN newOvnAddressSet(names.v6, split.v6, r4.st, og6, o6)
            ELSE Skip(NilSet, r4.st)
  IN IF r4.err # Nil THEN HResult(NoHandle, r4.st, r4.err, r4.calls)
     ELSE IF r6.err # Nil THEN HResult(NoHandle, r6.st, r6.err, r4.calls \o r6.calls)
     ELSE HResult([made |-> TRUE, name |-> name, ipv4 |-> r4.as, ipv6 |-> r6.as],
                  r6.st, Nil, r4.calls \o r6.calls)

\* GetASHashNames that computes both names from the name of the handle
GetASHashNamesBoth(h) == MakeAddressSetHashNames(h.name)

GetASHashNames(h) ==
  [v4 |-> IF ~h.ipv4.nil THEN h.ipv4.hashName ELSE <<>>,
   v6 |-> IF ~h.ipv6.nil THEN h.ipv6.hashName ELSE <<>>]

GetName(h) == h.name

\* SetIPs that sends no replace for a family without IPs in the list
SetIPsSkipEmpty(h, ips, st, o6, o4) ==
  LET split == splitIPsByFamily(ips)
      r6 == IF ~h.ipv6.nil /\ Len(split.v6) > 0
            THEN setIPs(h.ipv6, split.v6, st, o6) ELSE Skip(h.ipv6, st)
      r4 == IF ~h.ipv4.nil /\ Len(split.v4) > 0
            THEN setIPs(h.ipv4, split.v4, r6.st, o4) ELSE Skip(h.ipv4, r6.st)
      err == IF ~h.ipv4.nil THEN Wrapf(r6.err, r4.err) ELSE r6.err
  IN HResult([h EXCEPT !.ipv6 = r6.as, !.ipv4 = r4.as], r4.st, err,
             r6.calls \o r4.calls)

\* SetIPs that returns when the v6 replace has failed
SetIPsFailFast(h, ips, st, o6, o4) ==
  LET split == splitIPsByFamily(ips)
      r6 == IF ~h.ipv6.nil THEN setIPs(h.ipv6, split.v6, st, o6) ELSE Skip(h.ipv6, st)
      r4 == IF ~h.ipv4.nil THEN setIPs(h.ipv4, split.v4, r6.st, o4)
            ELSE Skip(h.ipv4, r6.st)
  IN IF r6.err # Nil
     THEN HResult([h EXCEPT !.ipv6 = r6.as], r6.st, Error, r6.calls)
     ELSE HResult([h EXCEPT !.ipv6 = r6.as, !.ipv4 = r4.as], r4.st, r4.err,
                  r6.calls \o r4.calls)

SetIPs(h, ips, st, o6, o4) ==
  LET split == splitIPsByFamily(ips)
      r6 == IF ~h.ipv6.nil THEN setIPs(h.ipv6, split.v6, st, o6) ELSE Skip(h.ipv6, st)
      r4 == IF ~h.ipv4.nil THEN setIPs(h.ipv4, split.v4, r6.st, o4)
            ELSE Skip(h.ipv4, r6.st)
      err == IF ~h.ipv4.nil THEN Wrapf(r6.err, r4.err) ELSE r6.err
  IN HResult([h EXCEPT !.ipv6 = r6.as, !.ipv4 = r4.as], r4.st, err,
             r6.calls \o r4.calls)

\* AddIPs that goes on to the v4 set when the v6 set has failed
AddIPsBestEffort(h, ips, st, o6, o4) ==
  LET split == splitIPsByFamily(ips)
      r6 == IF ~h.ipv6.nil THEN addIPs(h.ipv6, split.v6, st, o6) ELSE Skip(h.ipv6, st)
      r4 == IF ~h.ipv4.nil THEN addIPs(h.ipv4, split.v4, r6.st, o4)
            ELSE Skip(h.ipv4, r6.st)
  IN IF Len(ips) = 0 THEN HResult(h, st, Nil, <<>>)
     ELSE HResult([h EXCEPT !.ipv6 = r6.as, !.ipv4 = r4.as], r4.st,
                  IF r6.err # Nil \/ r4.err # Nil THEN Error ELSE Nil,
                  r6.calls \o r4.calls)

AddIPs(h, ips, st, o6, o4) ==
  LET split == splitIPsByFamily(ips)
      r6 == IF ~h.ipv6.nil THEN addIPs(h.ipv6, split.v6, st, o6) ELSE Skip(h.ipv6, st)
      r4 == IF ~h.ipv4.nil THEN addIPs(h.ipv4, split.v4, r6.st, o4)
            ELSE Skip(h.ipv4, r6.st)
  IN IF Len(ips) = 0 THEN HResult(h, st, Nil, <<>>)
     ELSE IF r6.err # Nil
          THEN HResult([h EXCEPT !.ipv6 = r6.as], r6.st, Error, r6.calls)
          ELSE HResult([h EXCEPT !.ipv6 = r6.as, !.ipv4 = r4.as], r4.st,
                       IF r4.err # Nil THEN Error ELSE Nil, r6.calls \o r4.calls)

DeleteIPs(h, ips, st, o6, o4) ==
  LET split == splitIPsByFamily(ips)
      r6 == IF ~h.ipv6.nil THEN deleteIPs(h.ipv6, split.v6, st, o6)
            ELSE Skip(h.ipv6, st)
      r4 == IF ~h.ipv4.nil THEN deleteIPs(h.ipv4, split.v4, r6.st, o4)
            ELSE Skip(h.ipv4, r6.st)
  IN IF Len(ips) = 0 THEN HResult(h, st, Nil, <<>>)
     ELSE IF r6.err # Nil
          THEN HResult([h EXCEPT !.ipv6 = r6.as], r6.st, Error, r6.calls)
          ELSE HResult([h EXCEPT !.ipv6 = r6.as, !.ipv4 = r4.as], r4.st,
                       IF r4.err # Nil THEN Error ELSE Nil, r6.calls \o r4.calls)

\* Destroy that deletes the v6 set first
DestroyV6First(h, st, o4, o6) ==
  LET r6 == IF ~h.ipv6.nil THEN destroy(h.ipv6, st, o6) ELSE Skip(h.ipv6, st)
      r4 == IF ~h.ipv4.nil THEN destroy(h.ipv4, r6.st, o4) ELSE Skip(h.ipv4, r6.st)
  IN IF r6.err # Nil
     THEN HResult([h EXCEPT !.ipv6 = r6.as], r6.st, r6.err, r6.calls)
     ELSE HResult([h EXCEPT !.ipv6 = r6.as, !.ipv4 = r4.as], r4.st, r4.err,
                  r6.calls \o r4.calls)

Destroy(h, st, o4, o6) ==
  LET r4 == IF ~h.ipv4.nil THEN destroy(h.ipv4, st, o4) ELSE Skip(h.ipv4, st)
      r6 == IF ~h.ipv6.nil THEN destroy(h.ipv6, r4.st, o6) ELSE Skip(h.ipv6, r4.st)
  IN IF r4.err # Nil
     THEN HResult([h EXCEPT !.ipv4 = r4.as], r4.st, r4.err, r4.calls)
     ELSE HResult([h EXCEPT !.ipv4 = r4.as, !.ipv6 = r6.as], r6.st, r6.err,
                  r4.calls \o r6.calls)

---------------------------------------------------------------------------
(* The factory: ForEachAddressSet *)

\* strings.Split(s, "."): the pieces of s between the dots
RECURSIVE SplitDots(_, _)
SplitDots(s, piece) ==
  IF s = <<>> THEN <<piece>>
  ELSE IF Head(s) = "." THEN <<piece>> \o SplitDots(Tail(s), <<>>)
       ELSE SplitDots(Tail(s), Append(piece, Head(s)))

Split(s) == SplitDots(s, <<>>)

\* a record of the listing: ExternalID["name"] is absent, is not a string, or
\* is a string
Absent == [kind |-> "absent", name |-> <<>>]

NonString == [kind |-> "nonstring", name |-> <<"z">>]

Named(n) == [kind |-> "string", name |-> n]

Visit(addrSetName) ==
  LET names == Split(addrSetName)
  IN [name |-> addrSetName,
      namespace |-> names[1],
      suffix |-> IF Len(names) >= 2 THEN names[2] ELSE <<>>]

\* the loop with neither the test of processedAddressSets nor the breaks
RECURSIVE forEachLoopAll(_, _, _)
forEachLoopAll(addrSets, processed, calls) ==
  IF addrSets = <<>> THEN calls
  ELSE LET set == Head(addrSets)
           addrSetName == truncateSuffixFromAddressSet(set.name)
       IN IF set.kind # "string"
          THEN forEachLoopAll(Tail(addrSets), processed, calls)
          ELSE forEachLoopAll(Tail(addrSets), processed \cup {addrSetName},
                              Append(calls, Visit(addrSetName)))

\* the loop over addrSets: the iterator calls made, given the names processed
RECURSIVE forEachLoop(_, _, _)
forEachLoop(addrSets, processed, calls) ==
  IF addrSets = <<>> THEN calls
  ELSE LET set == Head(addrSets)
           addrSetName == truncateSuffixFromAddressSet(set.name)
       IN IF set.kind # "string"
          THEN forEachLoop(Tail(addrSets), processed, calls)
          ELSE IF addrSetName \in processed
               THEN calls
               ELSE Append(calls, Visit(addrSetName))

\* ol is the answer of ASList
ForEachAddressSet(addrSets, ol) ==
  IF ol = "err" THEN [err |-> Error, visits |-> <<>>]
  ELSE [err |-> Nil, visits |-> forEachLoop(addrSets, {}, <<>>)]

ListedNames ==
  {<<"a">>, <<"a", "_", "v", "4">>, <<"a", "_", "v", "6">>,
   <<"b", ".", "x", "_", "v", "4">>, <<"b", ".", "x", ".", "y">>}

ListedRecords == {Absent, NonString} \cup {Named(n) : n \in ListedNames}

Listings == UNION {[1..n -> ListedRecords] : n \in 0..MaxList}

\* destroyAddressSet that takes NotFound for a failure, as destroy does
destroyAddressSetStrict(name, st, o) ==
  LET c == Call("delete", hashedAddressSet(name), EmptyBag, <<>>, o)
  IN IF o = "builderr" THEN Result(NilSet, st, Error, <<>>)
     ELSE IF o # "ok" THEN Result(NilSet, st, Error, <<c>>)
     ELSE Result(NilSet, Execute(st, c), Nil, <<c>>)

\* destroyAddressSet: o is "builderr" when ASDel gives no command, else the
\* answer of Execute; there is no object, only the store, the error and the
\* command sent
destroyAddressSet(name, st, o) ==
  LET hashName == hashedAddressSet(name)
      c == Call("delete", hashName, EmptyBag, <<>>, o)
  IN IF o = "builderr" THEN Result(NilSet, st, Error, <<>>)
     ELSE IF o # "ok" /\ o # "notfound" THEN Result(NilSet, st, Error, <<c>>)
     ELSE Result(NilSet, Execute(st, c), Nil, <<c>>)

DestroyAddressSetInBackingStore(name, st, o, o4, o6) ==
  LET r == destroyAddressSet(name, st, o)
      names == MakeAddressSetName(name)
      r4 == destroyAddressSet(names.v4, r.st, o4)
      r6 == destroyAddressSet(names.v6, r4.st, o6)
  IN IF r.err # Nil THEN [st |-> r.st, err |-> r.err, calls |-> r.calls]
     ELSE IF r4.err # Nil
          THEN [st |-> r4.st, err |-> r4.err, calls |-> r.calls \o r4.calls]
          ELSE [st |-> r6.st, err |-> r6.err,
                calls |-> r.calls \o r4.calls \o r6.calls]

---------------------------------------------------------------------------
(* State and actions *)

Configs == [v4 : BOOLEAN, v6 : BOOLEAN]

Mutating == {"create", "replace", "delete"}

\* the handle whose command last changed each record
Writers(w, calls) ==
  [id \in Ids |->
     IF \E i \in DOMAIN calls :
          calls[i].id = id /\ calls[i].cmd \in Mutating /\ calls[i].res = "ok"
     THEN w ELSE lw[id]]

\* no call is in progress: the caller holds no result
Idle == [op |-> "none", h |-> "none", ips |-> <<>>, err |-> Nil,
         calls |-> <<>>, pre |-> NoHandle]

\* the call just finished: its operation, handle, argument, returned error,
\* the commands it sent and the handle as it was before
Done(op, h, ips, r) ==
  [op |-> op, h |-> h, ips |-> ips, err |-> r.err, calls |-> r.calls, pre |-> hs[h]]

Finish(op, h, ips, r) ==
  /\ hs' = [hs EXCEPT ![h] = r.h]
  /\ store' = r.st
  /\ lw' = Writers(h, r.calls)
  /\ dead' = [dead EXCEPT ![h] = IF op = "NewAddressSet" THEN FALSE
                                  ELSE IF op = "Destroy" /\ r.err = Nil THEN TRUE
                                  ELSE @]
  /\ last' = Done(op, h, ips, r)
  /\ UNCHANGED <<config, listing, visits, mu, thr, base>>

Threads == {"t1", "t2"}

\* a goroutine that runs no call: pc is its position, op and ips the call,
\* err the error it will return, k the family it is at, og what ASGet
\* answered, as the per-family set a command has just been executed for, h
\* the handle under construction, calls the commands it has sent, waited
\* whether it found the mutex held
IdleThread ==
  [pc |-> "idle", op |-> "none", ips |-> <<>>, err |-> Nil, k |-> 0, og |-> "none",
   as |-> NilSet, h |-> NoHandle, calls |-> <<>>, waited |-> FALSE]

NoBase == [h |-> NoHandle, st |-> [id \in Ids |-> NoRecord]]

\* the answers the store can give to the command of one family
Answers(as, cmd) == IF as.nil THEN {"ok"} ELSE CmdOutcomes(store, cmd, as.hashName)

Init ==
  /\ config \in Configs
  /\ store = [id \in Ids |-> NoRecord]
  /\ hs = [h \in Handles |-> NoHandle]
  /\ lw = [id \in Ids |-> "none"]
  /\ dead = [h \in Handles |-> FALSE]
  /\ last = Idle
  /\ listing = <<>>
  /\ visits = <<>>
  /\ mu = "none"
  /\ thr = [t \in Threads |-> IdleThread]
  /\ base = NoBase

\* as, err = NewAddressSet(name, ips): the caller's variable is nil on an error
NewAddressSet(h, lists) ==
  /\ last = Idle
  /\ \E ips \in lists :
       LET ids == MakeAddressSetHashNames(LogicalName) IN
       \E og4 \in IF config.v4 THEN GetOutcomes(store, ids.v4) ELSE {"found"},
          og6 \in IF config.v6 THEN GetOutcomes(store, ids.v6) ELSE {"found"} :
         \E o4 \in IF config.v4
                   THEN CmdOutcomes(store, IF og4 = "found" THEN "replace" ELSE "create",
                                    ids.v4)
                   ELSE {"ok"},
            o6 \in IF config.v6
                   THEN CmdOutcomes(store, IF og6 = "found" THEN "replace" ELSE "create",
                                    ids.v6)
                   ELSE {"ok"} :
           Finish("NewAddressSet", h, ips,
                  newOvnAddressSets(LogicalName, ips, config, store, og4, o4, og6, o6))

DoSetIPs(h, lists) ==
  /\ last = Idle
  /\ hs[h].made
  /\ \E ips \in lists :
       \E o6 \in Answers(hs[h].ipv6, "replace"), o4 \in Answers(hs[h].ipv4, "replace") :
         Finish("SetIPs", h, ips, SetIPs(hs[h], ips, store, o6, o4))

DoAddIPs(h, lists) ==
  /\ last = Idle
  /\ hs[h].made
  /\ \E ips \in lists :
       \E o6 \in Answers(hs[h].ipv6, "replace"), o4 \in Answers(hs[h].ipv4, "replace") :
         Finish("AddIPs", h, ips, AddIPs(hs[h], ips, store, o6, o4))

DoDeleteIPs(h, lists) ==
  /\ last = Idle
  /\ hs[h].made
  /\ \E ips \in lists :
       \E o6 \in Answers(hs[h].ipv6, "replace"), o4 \in Answers(hs[h].ipv4, "replace") :
         Finish("DeleteIPs", h, ips, DeleteIPs(hs[h], ips, store, o6, o4))

DoDestroy(h) ==
  /\ last = Idle
  /\ hs[h].made
  /\ \E o4 \in Answers(hs[h].ipv4, "delete"), o6 \in Answers(hs[h].ipv6, "delete") :
       Finish("Destroy", h, <<>>, Destroy(hs[h], store, o4, o6))

\* the caller has looked at the result and goes on
Return ==
  /\ last # Idle
  /\ last' = Idle
  /\ listing' = <<>>
  /\ visits' = <<>>
  /\ UNCHANGED <<config, store, hs, lw, dead, mu, thr, base>>

\* one handle at a time for the logical name, one call at a time
Next ==
  \/ NewAddressSet("h1", IPLists)
  \/ DoSetIPs("h1", IPLists)
  \/ DoAddIPs("h1", IPLists)
  \/ DoDeleteIPs("h1", IPLists)
  \/ DoDestroy("h1")
  \/ Return

Spec == Init /\ [][Next]_vars

DoForEachAddressSet ==
  /\ last = Idle
  /\ \E ol \in {"ok", "schema", "err"} :
       \E l \in IF ol = "ok" THEN Listings ELSE {<<>>} :
         LET r == ForEachAddressSet(l, ol) IN
         /\ listing' = l
         /\ visits' = r.visits
         /\ last' = [Idle EXCEPT !.op = "ForEachAddressSet", !.err = r.err]
         /\ UNCHANGED <<config, store, hs, lw, dead, mu, thr, base>>

\* enumeration of the address sets of the store
NextForEach == DoForEachAddressSet \/ Return

SpecForEach == Init /\ [][NextForEach]_vars

\* the names whose records DestroyAddressSetInBackingStore deletes
StoredNames ==
  {LogicalName, MakeAddressSetName(LogicalName).v4, MakeAddressSetName(LogicalName).v6}

\* the records the store may hold from the start
StoredRecords ==
  {NoRecord} \cup
  {Record(BagOf(ipsToStringArray(ips)), n) : ips \in IPListsTo(MaxStored), n \in StoredNames}

\* the factory is made for a store that earlier runs have left in any state:
\* each of the legacy, the v4 and the v6 record is there or not; no handle
\* has been made
InitFactory ==
  /\ config \in Configs
  /\ store \in [Ids -> StoredRecords]
  /\ \A n \in StoredNames :
       store[hashedAddressSet(n)].present => store[hashedAddressSet(n)].name = n
  /\ hs = [h \in Handles |-> NoHandle]
  /\ lw = [id \in Ids |-> "none"]
  /\ dead = [h \in Handles |-> FALSE]
  /\ last = Idle
  /\ listing = <<>>
  /\ visits = <<>>
  /\ mu = "none"
  /\ thr = [t \in Threads |-> IdleThread]
  /\ base = NoBase

\* what ASDel and Execute can answer to destroyAddressSet
DelOutcomes(st, id) == CmdOutcomes(st, "delete", id) \cup {"builderr"}

DoDestroyAddressSetInBackingStore ==
  /\ last = Idle
  /\ \A h \in Handles : ~hs[h].made
  /\ LET ids == MakeAddressSetHashNames(LogicalName) IN
     \E o \in DelOutcomes(store, hashedAddressSet(LogicalName)),
        o4 \in DelOutcomes(store, ids.v4), o6 \in DelOutcomes(store, ids.v6) :
       LET r == DestroyAddressSetInBackingStore(LogicalName, store, o, o4, o6) IN
       /\ store' = r.st
       /\ lw' = Writers("none", r.calls)
       /\ last' = [Idle EXCEPT !.op = "DestroyAddressSetInBackingStore",
                               !.err = r.err, !.calls = r.calls]
       /\ UNCHANGED <<config, hs, dead, listing, visits, mu, thr, base>>

\* clean-up of the records of a name for which no handle exists
NextFactory == DoDestroyAddressSetInBackingStore \/ Return

SpecFactory == InitFactory /\ [][NextFactory]_vars

\* two live handles for the same logical name
Next2 ==
  \/ \E h \in Handles : NewAddressSet(h, IPListsTo(MaxIPsTwo))
  \/ \E h \in Handles : DoSetIPs(h, IPListsTo(MaxIPsTwo))
  \/ \E h \in Handles : DoAddIPs(h, IPListsTo(MaxIPsTwo))
  \/ \E h \in Handles : DoDeleteIPs(h, IPListsTo(MaxIPsTwo))
  \/ \E h \in Handles : DoDestroy(h)
  \/ Return

Spec2 == Init /\ [][Next2]_vars

---------------------------------------------------------------------------
(* Two goroutines that call methods of one handle at the same time *)

\* the handle the goroutines share
Shared == "h1"

AllIdle == \A t \in Threads : thr[t].pc = "idle"

\* the lists the goroutines hand to their calls
ConcLists == {<<>>, <<IPA4>>, <<IPB4>>, <<IPX6>>}

ConcCalls ==
  {[op |-> op, ips |-> ips] : op \in {"SetIPs", "AddIPs", "DeleteIPs"}, ips \in ConcLists}
    \cup {[op |-> "Destroy", ips |-> <<>>]}

\* a mutex whose Lock never blocks
MutexFreeAlways(m) == TRUE

\* sync.RWMutex: Lock returns only when no goroutine holds the mutex
MutexFree(m) == m = "none"

\* the order in which a method goes through the families
Order(op) == IF op = "Destroy" THEN <<"v4", "v6">> ELSE <<"v6", "v4">>

\* the command a method sends for a family
CmdOf(op) == IF op = "Destroy" THEN "delete" ELSE "replace"

\* the step of a method on the set of one family
PerFamily(op, as, ips, st, o) ==
  IF op = "SetIPs" THEN setIPs(as, ips, st, o)
  ELSE IF op = "AddIPs" THEN addIPs(as, ips, st, o)
  ELSE IF op = "DeleteIPs" THEN deleteIPs(as, ips, st, o)
  ELSE destroy(as, st, o)

SetField(h, f, as) == IF f = "v4" THEN [h EXCEPT !.ipv4 = as] ELSE [h EXCEPT !.ipv6 = as]

\* the method goes on after a family whose pointer is nil
Advance(c) ==
  [c EXCEPT !.pc = IF c.k = 2 THEN "unlock" ELSE "locked",
            !.k = IF c.k = 2 THEN 0 ELSE c.k + 1]

\* the method goes on after the step of a family returned ferr: SetIPs keeps
\* the v6 error and wraps it around the v4 one, the others return at an error
After(c, ferr) ==
  LET f == Order(c.op)[c.k]
      e == IF c.op = "SetIPs"
           THEN IF f = "v6" THEN ferr ELSE Wrapf(c.err, ferr)
           ELSE IF ferr # Nil THEN Error ELSE c.err
      stop == (c.op # "SetIPs" /\ ferr # Nil) \/ c.k = 2
  IN [c EXCEPT !.err = e, !.as = NilSet,
               !.pc = IF stop THEN "unlock" ELSE "locked",
               !.k = IF stop THEN 0 ELSE c.k + 1]

\* AddIPs and DeleteIPs return before Lock when the list is empty
ReturnsEarly(c) == c.op \in {"AddIPs", "DeleteIPs"} /\ Len(c.ips) = 0

\* the handle is made while no goroutine runs
Construct == AllIdle /\ NewAddressSet(Shared, ConcLists)

\* two goroutines are started, each with one call on the shared handle
Fork ==
  /\ last = Idle
  /\ AllIdle
  /\ hs[Shared].made
  /\ \E c \in [Threads -> ConcCalls] :
       thr' = [t \in Threads |->
                 [IdleThread EXCEPT !.pc = "called", !.op = c[t].op, !.ips = c[t].ips]]
  /\ base' = [h |-> hs[Shared], st |-> store]
  /\ UNCHANGED <<config, store, hs, lw, dead, last, listing, visits, mu>>

ReturnEmpty(t) ==
  /\ thr[t].pc = "called"
  /\ ReturnsEarly(thr[t])
  /\ thr' = [thr EXCEPT ![t].pc = "done"]
  /\ UNCHANGED <<config, store, hs, lw, dead, last, listing, visits, mu, base>>

\* as.Lock() finds the mutex held: the goroutine is parked
Wait(t) ==
  /\ thr[t].pc = "called"
  /\ ~ReturnsEarly(thr[t])
  /\ ~MutexFree(mu)
  /\ thr' = [thr EXCEPT ![t].pc = "waiting", ![t].waited = TRUE]
  /\ UNCHANGED <<config, store, hs, lw, dead, last, listing, visits, mu, base>>

\* as.Lock() returns
Lock(t) ==
  /\ thr[t].pc \in {"called", "waiting"}
  /\ ~ReturnsEarly(thr[t])
  /\ MutexFree(mu)
  /\ mu' = t
  /\ thr' = [thr EXCEPT ![t].pc = "locked", ![t].k = 1]
  /\ UNCHANGED <<config, store, hs, lw, dead, last, listing, visits, base>>

\* the method reads the cache of the family it is at and has its command
\* executed; the cache is written in a later step, and only after a command
\* that succeeded
Step(t) ==
  /\ thr[t].pc = "locked"
  /\ LET c == thr[t]
         f == Order(c.op)[c.k]
         as == SetOf(hs[Shared], f)
     IN IF as.nil
        THEN /\ thr' = [thr EXCEPT ![t] = Advance(c)]
             /\ UNCHANGED <<store, lw>>
        ELSE \E o \in CmdOutcomes(store, CmdOf(c.op), as.hashName) :
               LET r == PerFamily(c.op, as, splitIPsByFamily(c.ips)[f], store, o) IN
               /\ store' = r.st
               /\ lw' = Writers(Shared, r.calls)
               /\ thr' = [thr EXCEPT ![t] =
                            IF r.err = Nil /\ r.calls # <<>>
                            THEN [c EXCEPT !.pc = "write", !.as = r.as]
                            ELSE After(c, r.err)]
  /\ UNCHANGED <<config, hs, dead, last, listing, visits, mu, base>>

\* as.ips is assigned after the command has succeeded
Write(t) ==
  /\ thr[t].pc = "write"
  /\ hs' = [hs EXCEPT ![Shared] = SetField(@, Order(thr[t].op)[thr[t].k], thr[t].as)]
  /\ thr' = [thr EXCEPT ![t] = After(thr[t], Nil)]
  /\ UNCHANGED <<config, store, lw, dead, last, listing, visits, mu, base>>

\* the deferred as.Unlock() and the return of the method
Unlock(t) ==
  /\ thr[t].pc = "unlock"
  /\ mu' = "none"
  /\ thr' = [thr EXCEPT ![t].pc = "done"]
  /\ dead' = [dead EXCEPT ![Shared] =
                IF thr[t].op = "Destroy" /\ thr[t].err = Nil THEN TRUE ELSE @]
  /\ UNCHANGED <<config, store, hs, lw, last, listing, visits, base>>

\* both goroutines have returned
Join ==
  /\ \A t \in Threads : thr[t].pc = "done"
  /\ thr' = [t \in Threads |-> IdleThread]
  /\ base' = NoBase
  /\ UNCHANGED <<config, store, hs, lw, dead, last, listing, visits, mu>>

NextLock ==
  \/ Construct
  \/ Return
  \/ Fork
  \/ \E t \in Threads : ReturnEmpty(t)
  \/ \E t \in Threads : Wait(t)
  \/ \E t \in Threads : Lock(t)
  \/ \E t \in Threads : Step(t)
  \/ \E t \in Threads : Write(t)
  \/ \E t \in Threads : Unlock(t)
  \/ Join

SpecLock == Init /\ [][NextLock]_vars

---------------------------------------------------------------------------
(* Two goroutines that call NewAddressSet for one name at the same time *)

\* the variable each goroutine assigns the handle it gets to
HandleOf(t) == IF t = "t1" THEN "h1" ELSE "h2"

\* newOvnAddressSets makes the v4 set and then the v6 set
NewOrder == <<"v4", "v6">>

\* the identifier and the name of the family the goroutine is at
IdAt(c) == MakeAddressSetHashNames(LogicalName)[NewOrder[c.k]]

NameAt(c) == MakeAddressSetName(LogicalName)[NewOrder[c.k]]

\* both goroutines call NewAddressSet(LogicalName, ips); the factory has no
\* lock and no state but the client of the store
ForkNew ==
  /\ last = Idle
  /\ AllIdle
  /\ \E l \in [Threads -> ConcLists] :
       thr' = [t \in Threads |->
                 [IdleThread EXCEPT !.pc = "get", !.op = "NewAddressSet", !.ips = l[t],
                                    !.k = 1,
                                    !.h = [NoHandle EXCEPT !.made = TRUE,
                                                           !.name = LogicalName]]]
  /\ base' = [h |-> NoHandle, st |-> store]
  /\ UNCHANGED <<config, store, hs, lw, dead, last, listing, visits, mu>>

\* the family is not enabled: no set is made for it
SkipFamily(t) ==
  /\ thr[t].pc = "get"
  /\ thr[t].k <= 2
  /\ ~Enabled(NewOrder[thr[t].k])
  /\ thr' = [thr EXCEPT ![t].k = @ + 1]
  /\ UNCHANGED <<config, store, hs, lw, dead, last, listing, visits, mu, base>>

\* newOvnAddressSet up to the answer of ASGet
Get(t) ==
  /\ thr[t].pc = "get"
  /\ thr[t].k <= 2
  /\ Enabled(NewOrder[thr[t].k])
  /\ LET c == thr[t] IN
     \E og \in GetOutcomes(store, IdAt(c)) :
       thr' = [thr EXCEPT ![t] =
                 IF og = "err"
                 THEN [c EXCEPT !.pc = "fail", !.err = Error,
                                !.calls = @ \o newOvnAddressSet(NameAt(c), <<>>, store,
                                                                og, "ok").calls]
                 ELSE [c EXCEPT !.pc = "cmd", !.og = og]]
  /\ UNCHANGED <<config, store, hs, lw, dead, last, listing, visits, mu, base>>

\* newOvnAddressSet from the answer of ASGet on: the create, or the replace
\* of setIPs
CmdNew(t) ==
  /\ thr[t].pc = "cmd"
  /\ LET c == thr[t]
         f == NewOrder[c.k]
     IN \E o \in CmdOutcomes(store, IF c.og = "found" THEN "replace" ELSE "create",
                             IdAt(c)) :
          LET r == newOvnAddressSet(NameAt(c), splitIPsByFamily(c.ips)[f], store,
                                    c.og, o)
          IN /\ store' = r.st
             /\ lw' = Writers(HandleOf(t), r.calls)
             /\ thr' = [thr EXCEPT ![t] =
                          IF r.err # Nil
                          THEN [c EXCEPT !.pc = "fail", !.err = Error, !.og = "none",
                                         !.calls = @ \o r.calls]
                          ELSE [c EXCEPT !.pc = "get", !.k = @ + 1, !.og = "none",
                                         !.h = SetField(@, f, r.as),
                                         !.calls = @ \o r.calls]]
  /\ UNCHANGED <<config, hs, dead, last, listing, visits, mu, base>>

\* NewAddressSet returns: the handle, or nil and an error
ReturnNew(t) ==
  /\ \/ thr[t].pc = "fail"
     \/ thr[t].pc = "get" /\ thr[t].k = 3
  /\ hs' = [hs EXCEPT ![HandleOf(t)] = IF thr[t].err = Nil THEN thr[t].h ELSE NoHandle]
  /\ dead' = [dead EXCEPT ![HandleOf(t)] = FALSE]
  /\ thr' = [thr EXCEPT ![t].pc = "done", ![t].k = 0]
  /\ UNCHANGED <<config, store, lw, last, listing, visits, mu, base>>

NextNew ==
  \/ ForkNew
  \/ \E t \in Threads : SkipFamily(t)
  \/ \E t \in Threads : Get(t)
  \/ \E t \in Threads : CmdNew(t)
  \/ \E t \in Threads : ReturnNew(t)
  \/ Join

SpecNew == Init /\ [][NextNew]_vars

---------------------------------------------------------------------------
(* Properties *)

\* the strings of the IPs of family f in a list
Wanted(ips, f) ==
  {String(splitIPsByFamily(ips)[f][i]) : i \in DOMAIN splitIPsByFamily(ips)[f]}

\* the commands of the last call sent for identifier id
CallsFor(id, cmds) ==
  {i \in DOMAIN last.calls : last.calls[i].id = id /\ last.calls[i].cmd \in cmds}

Mutators == {"SetIPs", "AddIPs", "DeleteIPs", "Destroy"}

\* C1: the cache of a per-family set holds the members last written with
\* success to its record (none once the record is deleted); a call changes
\* a cache only if a command for that record succeeded, and leaves it as it
\* was if the command failed.
C1_CacheIsLastWrite ==
  /\ \A h \in Handles, f \in Families :
       LET as == SetOf(hs[h], f) IN
       (hs[h].made /\ ~as.nil /\ lw[as.hashName] = h) =>
         IF store[as.hashName].present
         THEN Keys(as.ips) = BagSet(store[as.hashName].members)
         ELSE as.ips = {}
  /\ last.op \in Mutators =>
       \A f \in Families :
         LET pre == SetOf(last.pre, f)
             now == SetOf(hs[last.h], f)
         IN ~pre.nil =>
              /\ now.ips # pre.ips =>
                   \E i \in CallsFor(pre.hashName, Mutating) : last.calls[i].res = "ok"
              /\ (\E i \in CallsFor(pre.hashName, Mutating) : last.calls[i].res # "ok")
                   => now.ips = pre.ips

\* a SetIPs whose v4 replace failed, with v4 members that differ from the
\* cache, and whose v6 replace changed the v6 cache
C1_Witness ==
  /\ last.op = "SetIPs"
  /\ ~last.pre.ipv4.nil /\ ~last.pre.ipv6.nil
  /\ \E i \in CallsFor(last.pre.ipv4.hashName, {"replace"}) : last.calls[i].res = "err"
  /\ \E i \in CallsFor(last.pre.ipv6.hashName, {"replace"}) : last.calls[i].res = "ok"
  /\ Wanted(last.ips, "v4") # Keys(last.pre.ipv4.ips)
  /\ last.pre.ipv4.ips # {}
  /\ hs[last.h].ipv6.ips # last.pre.ipv6.ips

\* C2: a successful DeleteIPs(D) sends, for each enabled family, a replace
\* whose members are the cache M minus D, and leaves the cache equal to
\* M minus D.
C2_DeleteIsDifference ==
  (last.op = "DeleteIPs" /\ last.err = Nil /\ Len(last.ips) > 0) =>
    \A f \in Families :
      LET pre == SetOf(last.pre, f)
          rest == Keys(pre.ips) \ Wanted(last.ips, f)
      IN ~pre.nil =>
           /\ \E i \in CallsFor(pre.hashName, {"replace"}) :
                BagSet(last.calls[i].members) = rest
           /\ Keys(SetOf(hs[last.h], f).ips) = rest

\* C3: a SetIPs, AddIPs, DeleteIPs or Destroy in which a command failed
\* returns an error.
C3_NoErrorDropped ==
  (last.op \in Mutators /\ \E i \in DOMAIN last.calls : last.calls[i].res # "ok")
    => last.err # Nil

\* C4: a Destroy whose deletes are answered by success or NotFound returns
\* no error, has sent a delete for every enabled family and leaves their
\* caches empty.
C4_DestroyToleratesNotFound ==
  (/\ last.op = "Destroy"
   /\ \A i \in DOMAIN last.calls : last.calls[i].res \in {"ok", "notfound"})
    => /\ last.err = Nil
       /\ \A f \in Families :
            ~SetOf(last.pre, f).nil =>
              /\ CallsFor(SetOf(last.pre, f).hashName, {"delete"}) # {}
              /\ SetOf(hs[last.h], f).ips = {}

\* a SetIPs, AddIPs or DeleteIPs with a non-empty input has returned on a
\* handle that was destroyed with success
AfterDestroy ==
  last.op \in {"SetIPs", "AddIPs", "DeleteIPs"} /\ Len(last.ips) > 0 /\ dead[last.h]

\* C5: after a successful Destroy on a handle, every later SetIPs, AddIPs or
\* DeleteIPs with a non-empty input on it returns an error, and none has a
\* command that succeeds, fills the cache again or rewrites a record.
C5_DestroyedHandleRejects ==
  AfterDestroy =>
    /\ last.err # Nil
    /\ \A i \in DOMAIN last.calls : last.calls[i].res # "ok"
    /\ hs[last.h] = last.pre

\* the part of C5 on the store alone: no command of such a call succeeds
C5_NoWriteAfterDestroy ==
  AfterDestroy => \A i \in DOMAIN last.calls : last.calls[i].res # "ok"

\* C6: the members of every create and every replace hold each IP string
\* at most once.
C6_MembersDeduplicated ==
  \A i \in DOMAIN last.calls :
    last.calls[i].cmd \in {"create", "replace"} =>
      \A str \in Strs : last.calls[i].members[str] <= 1

\* C7: when the listing is read, every normalized name of a record with a
\* string "name" is passed to the iterator.
C7_VisitsEveryName ==
  (last.op = "ForEachAddressSet" /\ last.err = Nil) =>
    \A i \in DOMAIN listing :
      listing[i].kind = "string" =>
        \E j \in DOMAIN visits :
          visits[j].name = truncateSuffixFromAddressSet(listing[i].name)

PairOfA == {Named(<<"a", "_", "v", "4">>), Named(<<"a", "_", "v", "6">>)}

\* C8: the iterator is never called twice for one normalized name; the
\* two records of the pair a_v4, a_v6 give one call, for a; a call is made
\* only for a record whose "name" is a string.
C8_OneVisitPerName ==
  last.op = "ForEachAddressSet" =>
    /\ \A i, j \in DOMAIN visits : visits[i].name = visits[j].name => i = j
    /\ (Len(listing) = 2 /\ {listing[1], listing[2]} = PairOfA) =>
         (Len(visits) = 1 /\ visits[1].name = <<"a">>)
    /\ \A j \in DOMAIN visits :
         \E i \in DOMAIN listing :
           /\ listing[i].kind = "string"
           /\ visits[j].name = truncateSuffixFromAddressSet(listing[i].name)
    /\ (\A i \in DOMAIN listing : listing[i].kind # "string") => visits = <<>>

\* the listing is the pair behind a record without a name
C8_Witness ==
  /\ last.op = "ForEachAddressSet"
  /\ Len(listing) = 3
  /\ listing[1].kind = "nonstring"
  /\ {listing[2], listing[3]} = PairOfA
  /\ Len(visits) = 1
  /\ visits[1].name = <<"a">>

\* the replaces of the last call for family f, the strings it was given that
\* the cache did not hold, and the union of both
Replaces(f) == CallsFor(SetOf(last.pre, f).hashName, {"replace"})

NewOnes(f) == Wanted(last.ips, f) \ Keys(SetOf(last.pre, f).ips)

Union(f) == Keys(SetOf(last.pre, f).ips) \cup Wanted(last.ips, f)

\* what C9 says of a replace that AddIPs sent: one per family at most, with the
\* union as its members, which is the cache if it succeeded; and nothing
\* is sent nor changed when every IP given is a member already
AddSendsUnion ==
  /\ \A f \in Families :
       ~SetOf(last.pre, f).nil =>
         /\ Cardinality(Replaces(f)) <= 1
         /\ \A i \in Replaces(f) :
              /\ BagSet(last.calls[i].members) = Union(f)
              /\ last.calls[i].res = "ok" => Keys(SetOf(hs[last.h], f).ips) = Union(f)
  /\ (\A f \in Families : ~SetOf(last.pre, f).nil => NewOnes(f) = {})
       => (last.calls = <<>> /\ hs[last.h] = last.pre)

\* C9 as stated: AddIPs sends a replace for an enabled family if and only
\* if an IP given for that family is not in its cache, and the replace
\* carries the union of the cache and the IPs given.
C9_AddReplacesIffNew ==
  last.op = "AddIPs" =>
    /\ \A f \in Families :
         ~SetOf(last.pre, f).nil => (Replaces(f) # {} <=> NewOnes(f) # {})
    /\ AddSendsUnion

\* the v6 replace of the last call failed, so that the call stopped there
StoppedAtV6 ==
  /\ ~last.pre.ipv6.nil
  /\ \E i \in Replaces("v6") : last.calls[i].res # "ok"

\* C9 as amended: AddIPs sends a replace for an enabled family if and only
\* if an IP given for that family is not in its cache and, for v4, the v6
\* replace of the same call has not failed; the replace carries the union.
C9_AddReplacesIffNewAndReached ==
  last.op = "AddIPs" =>
    /\ \A f \in Families :
         ~SetOf(last.pre, f).nil =>
           (Replaces(f) # {} <=> (NewOnes(f) # {} /\ ~(f = "v4" /\ StoppedAtV6)))
    /\ AddSendsUnion

\* an AddIPs of a v6 member and of a new v4 address to a set with v4 members:
\* no v6 replace and one v4 replace that grows the cache
C9_Witness ==
  /\ last.op = "AddIPs"
  /\ ~last.pre.ipv4.nil /\ ~last.pre.ipv6.nil
  /\ Wanted(last.ips, "v6") # {} /\ NewOnes("v6") = {} /\ Replaces("v6") = {}
  /\ last.pre.ipv4.ips # {} /\ NewOnes("v4") # {}
  /\ \E i \in Replaces("v4") : last.calls[i].res = "ok"
  /\ Keys(hs[last.h].ipv4.ips) = Union("v4")
  /\ last.err = Nil

\* C10: a NewAddressSet that finds the record of a family sends no create
\* for it but a replace with the IPs asked for that family, which are the
\* members of the record once the replace succeeded and the cache of the
\* handle returned; it returns no error when every record is found and every
\* replace succeeds.
C10_AdoptAndConverge ==
  last.op = "NewAddressSet" =>
    /\ \A f \in Families :
         LET id == MakeAddressSetHashNames(LogicalName)[f] IN
         (Enabled(f) /\ \E i \in CallsFor(id, {"get"}) : last.calls[i].res = "found") =>
           /\ CallsFor(id, {"create"}) = {}
           /\ \E i \in CallsFor(id, {"replace"}) :
                BagSet(last.calls[i].members) = Wanted(last.ips, f)
           /\ (\A i \in CallsFor(id, {"replace"}) : last.calls[i].res = "ok") =>
                (store[id].present /\ BagSet(store[id].members) = Wanted(last.ips, f))
           /\ last.err = Nil => Keys(SetOf(hs[last.h], f).ips) = Wanted(last.ips, f)
    /\ (\A i \in DOMAIN last.calls : last.calls[i].res \in {"found", "ok"})
         => (last.err = Nil /\ hs[last.h].made)

\* a second NewAddressSet in dual-stack mode that finds both records, the v4
\* one with other members than those asked for, and succeeds
C10_Witness ==
  /\ last.op = "NewAddressSet"
  /\ last.pre.made /\ hs[last.h].made /\ last.err = Nil
  /\ config.v4 /\ config.v6
  /\ \A i \in DOMAIN last.calls : last.calls[i].res \in {"found", "ok"}
  /\ last.pre.ipv4.ips # {}
  /\ Keys(last.pre.ipv4.ips) # Wanted(last.ips, "v4")
  /\ Keys(hs[last.h].ipv4.ips) = Wanted(last.ips, "v4")

\* C12: a SetIPs sends one replace to every enabled family, with the IPs of
\* that family in the list as members, also when there are none; when
\* every replace succeeded the cache of each enabled family holds one entry
\* per string of these IPs and its record holds these strings, whatever was
\* there before.
C12_SetIPsRoundTrip ==
  last.op = "SetIPs" =>
    \A f \in Families :
      LET pre == SetOf(last.pre, f)
          now == SetOf(hs[last.h], f)
      IN ~pre.nil =>
           /\ Cardinality(Replaces(f)) = 1
           /\ \A i \in Replaces(f) :
                BagSet(last.calls[i].members) = Wanted(last.ips, f)
           /\ (\A i \in DOMAIN last.calls : last.calls[i].res = "ok") =>
                /\ Keys(now.ips) = Wanted(last.ips, f)
                /\ Cardinality(now.ips) = Cardinality(Wanted(last.ips, f))
                /\ store[pre.hashName].present
                /\ BagSet(store[pre.hashName].members) = Wanted(last.ips, f)

\* a SetIPs of the empty list on a dual-stack handle with members of both
\* families, which leaves both caches and both records empty
C12_Witness ==
  /\ last.op = "SetIPs"
  /\ last.ips = <<>>
  /\ last.pre.ipv4.ips # {} /\ last.pre.ipv6.ips # {}
  /\ Len(last.calls) = 2
  /\ \A i \in DOMAIN last.calls : last.calls[i].res = "ok"
  /\ hs[last.h].ipv4.ips = {} /\ hs[last.h].ipv6.ips = {}
  /\ \A f \in Families :
       /\ store[SetOf(last.pre, f).hashName].present
       /\ store[SetOf(last.pre, f).hashName].members = EmptyBag

\* C14: a NewAddressSet returns either an error and no handle, or no error
\* and a handle with a set for every enabled family and none for the
\* others; it returns an error when the get of an enabled family fails, or
\* its create or its replace; a get answered NotFound or SchemaUnavailable
\* is followed by a create, and by itself is no error.
C14_NoPartialHandle ==
  last.op = "NewAddressSet" =>
    /\ IF last.err # Nil
       THEN hs[last.h] = NoHandle
       ELSE /\ hs[last.h].made
            /\ \A f \in Families :
                 LET as == SetOf(hs[last.h], f)
                     id == MakeAddressSetHashNames(LogicalName)[f]
                 IN IF Enabled(f)
                    THEN /\ ~as.nil
                         /\ as.hashName = id
                         /\ Keys(as.ips) = Wanted(last.ips, f)
                         /\ store[id].present
                    ELSE as.nil
    /\ \A f \in Families :
         LET id == MakeAddressSetHashNames(LogicalName)[f] IN
         Enabled(f) =>
           /\ (\E i \in CallsFor(id, {"get"}) : last.calls[i].res = "err")
                => last.err # Nil
           /\ (\E i \in CallsFor(id, {"create", "replace"}) : last.calls[i].res # "ok")
                => last.err # Nil
           /\ (\E i \in CallsFor(id, {"get"}) :
                 last.calls[i].res \in {"notfound", "schema"})
                => (CallsFor(id, {"create"}) # {} /\ CallsFor(id, {"replace"}) = {})
    /\ (\A i \in DOMAIN last.calls :
          last.calls[i].res \in {"found", "notfound", "schema", "ok"})
         => last.err = Nil

\* a dual-stack NewAddressSet whose v4 get is answered SchemaUnavailable and
\* whose v4 create succeeds, whose v6 get is answered NotFound and whose v6
\* create fails: an error and no handle, with the v4 record created
C14_Witness ==
  /\ last.op = "NewAddressSet"
  /\ config.v4 /\ config.v6
  /\ Len(last.calls) = 4
  /\ last.calls[1].res = "schema" /\ last.calls[2].res = "ok"
  /\ last.calls[3].res = "notfound" /\ last.calls[4].res = "err"
  /\ last.err # Nil
  /\ hs[last.h] = NoHandle
  /\ store[MakeAddressSetHashNames(LogicalName).v4].present

\* C15: a handle has no set for a disabled family and GetASHashNames gives
\* the empty string for it; no call on the handle sends a command for the
\* identifier of a disabled family; a SetIPs, AddIPs or DeleteIPs returns an
\* error only if a command of an enabled family failed; the names of the
\* handle are those of its construction and no call changes them.
C15_DisabledFamilySkipped ==
  /\ \A h \in Handles, f \in Families :
       hs[h].made =>
         /\ GetName(hs[h]) = LogicalName
         /\ IF Enabled(f)
            THEN GetASHashNames(hs[h])[f] = MakeAddressSetHashNames(LogicalName)[f]
            ELSE SetOf(hs[h], f).nil /\ GetASHashNames(hs[h])[f] = <<>>
  /\ last.op \in Mutators =>
       /\ \A f \in Families :
            ~Enabled(f) =>
              CallsFor(MakeAddressSetHashNames(LogicalName)[f],
                       {"get", "create", "replace", "delete"}) = {}
       /\ last.err # Nil => \E i \in DOMAIN last.calls : last.calls[i].res # "ok"
       /\ GetASHashNames(hs[last.h]) = GetASHashNames(last.pre)
       /\ GetName(hs[last.h]) = GetName(last.pre)

\* with IPv6 disabled, a SetIPs of a list with an IPv6 and an IPv4 address
\* that returns no error and has sent the v4 replace only
C15_Witness ==
  /\ config.v4 /\ ~config.v6
  /\ last.op = "SetIPs"
  /\ Wanted(last.ips, "v6") # {} /\ Wanted(last.ips, "v4") # {}
  /\ last.err = Nil
  /\ Len(last.calls) = 1
  /\ hs[last.h].ipv6.nil
  /\ GetASHashNames(hs[last.h]).v6 = <<>>
  /\ Keys(hs[last.h].ipv4.ips) = Wanted(last.ips, "v4")

\* C16: a SetIPs on a dual-stack handle sends the v6 replace and then the
\* v4 replace, whatever the answer to the first; the cache of a family
\* whose replace succeeded holds the new members, that of a family whose
\* replace failed is as it was.
C16_SetIPsBestEffort ==
  (last.op = "SetIPs" /\ ~last.pre.ipv4.nil /\ ~last.pre.ipv6.nil) =>
    /\ Len(last.calls) = 2
    /\ last.calls[1].id = last.pre.ipv6.hashName /\ last.calls[1].cmd = "replace"
    /\ last.calls[2].id = last.pre.ipv4.hashName /\ last.calls[2].cmd = "replace"
    /\ \A f \in Families :
         \A i \in Replaces(f) :
           IF last.calls[i].res = "ok"
           THEN Keys(SetOf(hs[last.h], f).ips) = Wanted(last.ips, f)
           ELSE SetOf(hs[last.h], f).ips = SetOf(last.pre, f).ips

\* a SetIPs whose v6 replace failed and whose v4 replace succeeded: the v6
\* cache keeps members that are not the ones asked for, the v4 cache changed
C16_Witness ==
  /\ last.op = "SetIPs"
  /\ ~last.pre.ipv4.nil /\ ~last.pre.ipv6.nil
  /\ \E i \in Replaces("v6") : last.calls[i].res = "err"
  /\ \E i \in Replaces("v4") : last.calls[i].res = "ok"
  /\ last.pre.ipv6.ips # {}
  /\ Wanted(last.ips, "v6") = {}
  /\ hs[last.h].ipv6.ips = last.pre.ipv6.ips
  /\ hs[last.h].ipv4.ips # last.pre.ipv4.ips
  /\ Keys(hs[last.h].ipv4.ips) = Wanted(last.ips, "v4")

\* every command of the last call for the record of family f
Touching(f) ==
  CallsFor(SetOf(last.pre, f).hashName, {"get", "create", "replace", "delete"})

\* C17: in an AddIPs or DeleteIPs on a dual-stack handle, when the v6
\* replace failed an error is returned, no command was sent for the v4
\* record and the v4 cache is as it was; when the v6 step succeeded and the
\* v4 replace failed an error is returned, the v4 cache is as it was and the
\* v6 cache and record hold what the v6 replace wrote.
C17_AddDeleteFailFast ==
  (last.op \in {"AddIPs", "DeleteIPs"} /\ ~last.pre.ipv4.nil /\ ~last.pre.ipv6.nil) =>
    /\ \A i \in DOMAIN last.calls :
         last.calls[i].id = last.pre.ipv4.hashName =>
           \A j \in Replaces("v6") : j < i
    /\ (\E i \in Replaces("v6") : last.calls[i].res # "ok") =>
         /\ last.err # Nil
         /\ Touching("v4") = {}
         /\ hs[last.h].ipv4 = last.pre.ipv4
    /\ ((\A i \in Replaces("v6") : last.calls[i].res = "ok")
         /\ \E i \in Replaces("v4") : last.calls[i].res # "ok") =>
         /\ last.err # Nil
         /\ hs[last.h].ipv4 = last.pre.ipv4
         /\ Replaces("v6") = {} => hs[last.h].ipv6 = last.pre.ipv6
         /\ \A i \in Replaces("v6") :
              /\ Keys(hs[last.h].ipv6.ips) = BagSet(last.calls[i].members)
              /\ store[last.pre.ipv6.hashName] =
                   Record(last.calls[i].members, last.pre.ipv6.name)

\* an AddIPs whose v6 replace succeeded and made the v6 cache grow, and
\* whose v4 replace failed
C17_Witness ==
  /\ last.op = "AddIPs"
  /\ ~last.pre.ipv4.nil /\ ~last.pre.ipv6.nil
  /\ \E i \in Replaces("v6") : last.calls[i].res = "ok"
  /\ \E i \in Replaces("v4") : last.calls[i].res = "err"
  /\ last.pre.ipv6.ips = {} /\ hs[last.h].ipv6.ips # {}
  /\ last.pre.ipv4.ips # {}
  /\ hs[last.h].ipv4 = last.pre.ipv4
  /\ last.err # Nil

\* the deletes of the last call for family f
Deletes(f) == CallsFor(SetOf(last.pre, f).hashName, {"delete"})

\* C18: a Destroy on a dual-stack handle sends the v4 delete first; when
\* it failed no v6 delete was sent, an error is returned and both caches
\* are as they were; when it succeeded and the v6 delete failed an error is
\* returned, the v4 cache is empty and the v6 cache as it was; no error is
\* returned only if both deletes succeeded.
C18_DestroyV4First ==
  (last.op = "Destroy" /\ ~last.pre.ipv4.nil /\ ~last.pre.ipv6.nil) =>
    /\ Len(last.calls) >= 1
    /\ last.calls[1].id = last.pre.ipv4.hashName /\ last.calls[1].cmd = "delete"
    /\ \A i \in Deletes("v6") : i = 2
    /\ last.calls[1].res = "err" =>
         /\ Deletes("v6") = {}
         /\ last.err # Nil
         /\ hs[last.h] = last.pre
    /\ (last.calls[1].res = "ok" /\ \E i \in Deletes("v6") : last.calls[i].res = "err") =>
         /\ last.err # Nil
         /\ hs[last.h].ipv4.ips = {}
         /\ hs[last.h].ipv6 = last.pre.ipv6
    /\ last.err = Nil =>
         /\ Len(last.calls) = 2
         /\ \A i \in DOMAIN last.calls : last.calls[i].res = "ok"

\* a Destroy of a handle with members of both families whose v4 delete
\* succeeded and whose v6 delete failed
C18_Witness ==
  /\ last.op = "Destroy"
  /\ last.pre.ipv4.ips # {} /\ last.pre.ipv6.ips # {}
  /\ Len(last.calls) = 2
  /\ last.calls[1].res = "ok" /\ last.calls[2].res = "err"
  /\ last.err # Nil
  /\ hs[last.h].ipv4.ips = {}
  /\ hs[last.h].ipv6.ips = last.pre.ipv6.ips
  /\ ~store[last.pre.ipv4.hashName].present
  /\ store[last.pre.ipv6.hashName].present

\* C19: a successful AddIPs or DeleteIPs on a dual-stack handle, given
\* IPs of one family only, leaves the cache of the other family as it was
\* and writes no other members to its record than those of that cache.
C19_OtherFamilyUntouched ==
  (/\ last.op \in {"AddIPs", "DeleteIPs"}
   /\ last.err = Nil
   /\ Len(last.ips) > 0
   /\ ~last.pre.ipv4.nil /\ ~last.pre.ipv6.nil) =>
    \A f \in Families :
      Wanted(last.ips, f) = {} =>
        /\ SetOf(hs[last.h], f).ips = SetOf(last.pre, f).ips
        /\ \A i \in CallsFor(SetOf(last.pre, f).hashName, Mutating) :
             /\ last.calls[i].cmd = "replace"
             /\ BagSet(last.calls[i].members) = Keys(SetOf(last.pre, f).ips)

\* the identifiers DestroyAddressSetInBackingStore deletes, in its order
DeleteOrder ==
  <<hashedAddressSet(LogicalName), MakeAddressSetHashNames(LogicalName).v4,
    MakeAddressSetHashNames(LogicalName).v6>>

\* C13: the commands of a DestroyAddressSetInBackingStore are deletes of
\* the legacy, the v4 and the v6 identifier in this order; a delete follows
\* one answered by success or NotFound; a delete answered by another error
\* is the last one and an error is returned; no error is returned when all
\* three are answered by success or NotFound, and then none of the three
\* records is in the store.
C13_FactoryDestroyAll ==
  last.op = "DestroyAddressSetInBackingStore" =>
    /\ Len(last.calls) <= 3
    /\ \A i \in DOMAIN last.calls :
         /\ last.calls[i].cmd = "delete"
         /\ last.calls[i].id = DeleteOrder[i]
         /\ i < Len(last.calls) => last.calls[i].res \in {"ok", "notfound"}
         /\ last.calls[i].res \notin {"ok", "notfound"} => last.err # Nil
         /\ last.calls[i].res \in {"ok", "notfound"} => ~store[DeleteOrder[i]].present
    /\ (Len(last.calls) = 3 /\ \A i \in 1..3 : last.calls[i].res \in {"ok", "notfound"})
         <=> last.err = Nil
    /\ last.err = Nil => \A id \in Ids : ~store[id].present

\* a DestroyAddressSetInBackingStore that finds neither the legacy nor the
\* v4 record, deletes the v6 record and returns no error
C13_Witness ==
  /\ last.op = "DestroyAddressSetInBackingStore"
  /\ Len(last.calls) = 3
  /\ last.calls[1].res = "notfound"
  /\ last.calls[2].res = "notfound"
  /\ last.calls[3].res = "ok"
  /\ last.err = Nil
  /\ \A id \in Ids : ~store[id].present

\* the goroutine is between Lock and Unlock
InCS(t) == thr[t].pc \in {"locked", "write", "unlock"}

\* the answers of the store to the command a method sends for a set, at st
AnswersAt(st, as, cmd) == IF as.nil THEN {"ok"} ELSE CmdOutcomes(st, cmd, as.hashName)

\* the results the call c can have when it runs alone on handle h and store st
Runs(c, h, st) ==
  IF c.op = "Destroy"
  THEN {Destroy(h, st, o[1], o[2]) :
          o \in AnswersAt(st, h.ipv4, "delete") \X AnswersAt(st, h.ipv6, "delete")}
  ELSE LET os == AnswersAt(st, h.ipv6, "replace") \X AnswersAt(st, h.ipv4, "replace")
       IN IF c.op = "SetIPs" THEN {SetIPs(h, c.ips, st, o[1], o[2]) : o \in os}
          ELSE IF c.op = "AddIPs" THEN {AddIPs(h, c.ips, st, o[1], o[2]) : o \in os}
          ELSE {DeleteIPs(h, c.ips, st, o[1], o[2]) : o \in os}

\* handle, store and returned errors are those of the call of t run alone
\* and then the call of u run alone
SerialOrder(t, u) ==
  \E r1 \in Runs(thr[t], base.h, base.st) :
    /\ r1.err = thr[t].err
    /\ \E r2 \in Runs(thr[u], r1.h, r1.st) :
         /\ r2.err = thr[u].err
         /\ r2.h = hs[Shared]
         /\ r2.st = store

\* C11: at most one goroutine is between Lock and Unlock of the handle, and
\* it is the holder of the mutex; when both calls have returned, handle,
\* store and errors are those of the two calls run one after the other in
\* some order; after two AddIPs that returned no error the cache and the
\* record of every enabled family hold the IPs of both lists.
C11_MutuallyExclusive ==
  /\ \A t, u \in Threads : (InCS(t) /\ InCS(u)) => t = u
  /\ \A t \in Threads : InCS(t) <=> mu = t
  /\ (\A t \in Threads : thr[t].pc = "done") =>
       /\ SerialOrder("t1", "t2") \/ SerialOrder("t2", "t1")
       /\ (\A t \in Threads : thr[t].op = "AddIPs" /\ thr[t].err = Nil) =>
            \A f \in Families, t \in Threads :
              LET as == SetOf(hs[Shared], f) IN
              ~as.nil =>
                /\ Wanted(thr[t].ips, f) \subseteq Keys(as.ips)
                /\ Wanted(thr[t].ips, f) \subseteq BagSet(store[as.hashName].members)

\* two AddIPs of different IPv4 addresses that the cache did not hold have
\* both returned with no error, one of them after it found the mutex held,
\* and the cache and the record hold both addresses
C11_Witness ==
  /\ \A t \in Threads : thr[t].pc = "done" /\ thr[t].op = "AddIPs" /\ thr[t].err = Nil
  /\ \E t \in Threads : thr[t].waited
  /\ thr["t1"].ips = <<IPA4>> /\ thr["t2"].ips = <<IPB4>>
  /\ base.h.ipv4.ips = {}
  /\ ~hs[Shared].ipv4.nil
  /\ hs[Shared].ipv4.ips = {IPA4, IPB4}
  /\ BagSet(store[hs[Shared].ipv4.hashName].members) = {"10.0.0.1", "10.0.0.2"}

\* the goroutine sends a command in this step, and it is a create
SendsCreate(t) ==
  /\ Len(thr'[t].calls) > Len(thr[t].calls)
  /\ thr'[t].calls[Len(thr'[t].calls)].cmd = "create"

\* C20: in every step in which a goroutine running NewAddressSet sends a
\* create, the record of that identifier is not in the store; a goroutine
\* whose get was answered before the create of the other sends a replace.
C20_NoCreateOfPresent ==
  [][\A t \in Threads :
       SendsCreate(t) => ~store[thr'[t].calls[Len(thr'[t].calls)].id].present]_vars


=============================================================================
